---------------------------- MODULE Spec2Model ----------------------------
(***************************************************************************)
(* Model of src/src/main.py: six independent media operations built on an  *)
(* external media engine (moviepy).  Every operation is one atomic action  *)
(* that runs the whole handler: pre-checks, output path synthesis, opening *)
(* the media, checks against the live media, the engine transform, the     *)
(* write, the closes and the result map.                                   *)
(*                                                                         *)
(* Representation.                                                         *)
(*  - A path is a non-empty sequence of atoms; "/" and "." are atoms of    *)
(*    their own.  No atom is a prefix of another atom, so two paths are    *)
(*    the same string exactly when they are the same atom sequence.        *)
(*  - An Optional value is a sequence: None is <<>>, an int x is <<x>>, a  *)
(*    scale num/den is <<num, den>>, a path is itself.                     *)
(*  - Times are integers (one unit = one second).                          *)
(*  - The engine is the environment: what a clip reports comes from the    *)
(*    media stored in the file, and every engine step (open, transform,    *)
(*    write, stat) may raise, chosen by the action's fault input.          *)
(*  - Messages are ASCII renderings of the source's message templates.     *)
(***************************************************************************)
EXTENDS Integers, Sequences, FiniteSets, TLC

VARIABLES
    fs,         \* input files: existing path -> media stored in the file
    found,      \* fs as the last call found it
    handles,    \* number of media handles opened and not closed so far
    call,       \* the last call: operation name and arguments
    result,     \* the result map the last call returned
    opened,     \* paths the last call opened a handle on, in order
    closed,     \* number of handles opened by the last call that it closed
    written,    \* paths the last call invoked a write step on, in order
    subclips,   \* <<start, end, source duration>> of each subclipped call
    raised,     \* engine step that raised in the last call, "none" if none
    earlier     \* history: per path, the get_video_info call before the last
                \* call, as <<[file, result, raised]>>; kept by InfoSpec only

vars == <<fs, found, handles, call, result, opened, closed, written,
          subclips, raised, earlier>>

-----------------------------------------------------------------------------
(* Bounds of the model *)

\* the times offered to start_time / end_time are -1 .. MaxTime
MaxTime == 2
\* handles the process may hold before the engine fails to open another
MaxOpenHandles == 2

-----------------------------------------------------------------------------
(* Values *)

None == <<>>

Video       == <<"video", ".", "mp4">>          \* a video with an audio track
Clip        == <<"clip", ".", "mp4">>           \* a video without audio
Song        == <<"song", ".", "mp3">>           \* audio with a cover-art stream
Nonexistent == <<"nonexistent", ".", "mp4">>    \* never created
Gone        == <<"gone", ".", "mp4">>           \* never created
Out         == <<"out", ".", "mp4">>            \* an explicit output path

VideoMedia == [kind |-> "video", duration |-> 2, w |-> 4, h |-> 2,
               fps |-> 30, audio |-> TRUE, bytes |-> 2097152]
ClipMedia  == [kind |-> "video", duration |-> 1, w |-> 2, h |-> 2,
               fps |-> 24, audio |-> FALSE, bytes |-> 16]
SongMedia  == [kind |-> "video", duration |-> 2, w |-> 1, h |-> 1,
               fps |-> 1, audio |-> TRUE, bytes |-> 5243]

\* the paths a caller names as input; fs tracks the files at these paths
InputPaths   == {Video, Clip, Song, Nonexistent}
TrimPaths    == {Video, Clip, Nonexistent}
ResizePaths  == {Video, Clip, Nonexistent}
ExtractPaths == {Song, Clip, Nonexistent}
ConcatPaths  == {Video, Clip, Nonexistent, Gone}
Tracked      == InputPaths \cup ConcatPaths
OutputPaths  == {None, Out}
Times        == (0 - 1) .. MaxTime
AudioFormats == {"mp3", "wav"}
Widths       == {None, <<3>>}
Heights      == {None, <<1>>}
Scales       == {None, <<1, 2>>}
Transitions  == {None, <<"fade">>}
Roundings    == {"floor", "nearest"}

\* which engine step raises during a call; <<"open", k>> is the k-th open
NoFault == <<"none", 0>>
Faults == {NoFault, <<"open", 1>>, <<"transform", 0>>, <<"write", 0>>}
ConcatFaults == Faults \cup {<<"open", 2>>}
InfoFaults == {NoFault, <<"open", 1>>, <<"stat", 0>>}
AudioFaults == {NoFault, <<"open", 1>>, <<"write", 0>>}

\* the lists offered to concatenate_videos: none, one path, every pair, and
\* three longer lists
PathLists ==
    {None, <<Video>>, <<Nonexistent>>}
    \cup {<<a, b>> : a \in ConcatPaths, b \in ConcatPaths}
    \cup {<<Video, Clip, Video>>, <<Clip, Gone, Nonexistent>>,
          <<Video, Nonexistent, Gone>>}

-----------------------------------------------------------------------------
(* os.path *)

\* index of the last occurrence of atom a in p, 0 if none (str.rfind + 1)
RECURSIVE rfind(_, _, _)
rfind(p, a, i) ==
    IF i = 0 THEN 0
    ELSE IF p[i] = a THEN i
    ELSE rfind(p, a, i - 1)

exists(fsys, path) == path \in DOMAIN fsys

basename(p) == SubSeq(p, rfind(p, "/", Len(p)) + 1, Len(p))

\* genericpath._splitext: split at the last dot of the last component,
\* unless the component has nothing but dots before it
splitext(p) ==
    LET sepIndex == rfind(p, "/", Len(p))
        dotIndex == rfind(p, ".", Len(p))
    IN IF dotIndex > sepIndex
          /\ \E i \in (sepIndex + 1) .. (dotIndex - 1) : p[i] # "."
       THEN <<SubSeq(p, 1, dotIndex - 1), SubSeq(p, dotIndex, Len(p))>>
       ELSE <<p, <<>>>>

-----------------------------------------------------------------------------
(* Result maps *)

\* a failure dict that also names a file
FailureWithFile(error, error_code) ==
    [success |-> FALSE, error |-> error, error_code |-> error_code,
     input_file |-> <<"input">>]

\* the failure dict literal every operation returns
Failure(error, error_code) ==
    [success |-> FALSE, error |-> error, error_code |-> error_code]

\* a fixed text in place of the exception's message
ExcMessageLost(step) == <<"processing failed">>

\* str(e) of the exception an engine step raised
ExcMessage(step) == <<"engine failure: ", step>>

\* an except clause that reports every exception as a missing file
CaughtAsNotFound(step, error_code) ==
    Failure(ExcMessage(step), "FILE_NOT_FOUND")

\* an except clause that builds the map without its error_code
CaughtNoCode(step, error_code) ==
    [success |-> FALSE, error |-> ExcMessage(step)]

\* the except clause of an operation: one generic code, message str(e)
Caught(step, error_code) == Failure(ExcMessage(step), error_code)

-----------------------------------------------------------------------------
(* The media engine, as the operations use it *)

\* VideoFileClip(path) returns a clip; it raises when the fault says so, when
\* the file holds no video stream or when no further handle can be opened
VideoFileClipOpens(m, h, fault, k) ==
    /\ fault # <<"open", k>>
    /\ m.kind = "video"
    /\ h < MaxOpenHandles

\* AudioFileClip(path): same, for a file with an audio stream
AudioFileClipOpens(m, h, fault, k) ==
    /\ fault # <<"open", k>>
    /\ m.audio
    /\ h < MaxOpenHandles

\* what AudioFileClip reports for the file: its audio stream
AudioOf(m) == [kind |-> "audio", duration |-> m.duration, w |-> 0, h |-> 0,
               fps |-> 0, audio |-> TRUE, bytes |-> m.bytes]

\* clip.subclipped(start_time, end_time): the part between the two times
subclipped(m, start_time, end_time) ==
    [m EXCEPT !.duration = end_time - start_time]

\* round(n / d) for n >= 0, d > 0, halves to the even neighbour
RoundDiv(n, d) ==
    LET q == n \div d
        r == n % d
    IN IF 2 * r > d \/ (2 * r = d /\ q % 2 = 1) THEN q + 1 ELSE q

\* how the engine turns the exact size n/d into a pixel count (n >= 0,
\* d > 0): it cuts the fraction off or takes the nearest integer; the
\* operations only read the result back from the resized clip
ToPixels(n, d, rounding) ==
    IF rounding = "floor" THEN n \div d ELSE RoundDiv(n, d)

\* clip.resized(scale), the clip's size multiplied by scale = <<num, den>>
resized_scale(m, scale, rounding) ==
    [m EXCEPT !.w = ToPixels(m.w * scale[1], scale[2], rounding),
              !.h = ToPixels(m.h * scale[1], scale[2], rounding)]

\* clip.resized(new_size=(width, height)), both taken as given
resized_new_size(m, width, height) == [m EXCEPT !.w = width, !.h = height]

\* clip.resized(width=width), the height following the aspect ratio
resized_width(m, width, rounding) ==
    [m EXCEPT !.w = width, !.h = ToPixels(m.h * width, m.w, rounding)]

\* clip.resized(height=height), the width following the aspect ratio
resized_height(m, height, rounding) ==
    [m EXCEPT !.w = ToPixels(m.w * height, m.h, rounding), !.h = height]

Max(a, b) == IF a >= b THEN a ELSE b

\* concatenate_videoclips(clips, method="compose"): the clips one after the
\* other on a canvas as large as the largest of them
RECURSIVE concatenate_videoclips(_)
concatenate_videoclips(clips) ==
    IF Len(clips) = 1 THEN clips[1]
    ELSE LET rest == concatenate_videoclips(Tail(clips))
             first == clips[1]
         IN [kind |-> "video",
             duration |-> first.duration + rest.duration,
             w |-> Max(first.w, rest.w), h |-> Max(first.h, rest.h),
             fps |-> Max(first.fps, rest.fps),
             audio |-> first.audio \/ rest.audio,
             bytes |-> 0]

\* the file an encoder writes for a clip
Encoded(m) == [m EXCEPT !.bytes = 1024 * (m.duration + 1)]

-----------------------------------------------------------------------------
(* Common tail of every operation: record the call and its effects *)

Return(c, res, op, cl, wr, newfs, sc, ex) ==
    /\ call' = c
    /\ result' = res
    /\ opened' = op
    /\ closed' = cl
    /\ written' = wr
    /\ fs' = newfs
    /\ found' = fs
    /\ subclips' = sc
    /\ raised' = ex
    /\ handles' = handles + Len(op) - cl

\* a completed write of media m to path; files at paths no call names as
\* input are not tracked (the write itself is recorded in written)
Put(fsys, path, m) ==
    IF path \in Tracked
    THEN [p \in DOMAIN fsys \cup {path} |-> IF p = path THEN m ELSE fsys[p]]
    ELSE fsys

-----------------------------------------------------------------------------
(* trim_video *)

\* the time checks placed before the existence check
TrimPreCheckTimesFirst(fileExists, start_time, end_time) ==
    IF start_time < 0 THEN "INVALID_START_TIME"
    ELSE IF end_time <= start_time THEN "INVALID_TIME_RANGE"
    ELSE IF ~fileExists THEN "FILE_NOT_FOUND"
    ELSE "OK"

\* the checks before the video is opened, in the order of the code
TrimPreCheck(fileExists, start_time, end_time) ==
    IF ~fileExists THEN "FILE_NOT_FOUND"
    ELSE IF start_time < 0 THEN "INVALID_START_TIME"
    ELSE IF end_time <= start_time THEN "INVALID_TIME_RANGE"
    ELSE "OK"

TrimPreMessage(code, video_path) ==
    IF code = "FILE_NOT_FOUND" THEN <<"video file does not exist: ">> \o video_path
    ELSE IF code = "INVALID_START_TIME" THEN <<"start time must not be negative">>
    ELSE <<"end time must be greater than start time">>

TrimOutputPath(video_path, output_path) ==
    IF output_path = None
    THEN splitext(basename(video_path))[1] \o <<"_trimmed", ".", "mp4">>
    ELSE output_path

\* no check of the end against the opened video
TrimOutOfRangeNever(end_time, duration) == FALSE

\* an end check that also rejects the end of the video
TrimOutOfRangeInclusive(end_time, duration) == end_time >= duration

\* the check against the opened video
TrimOutOfRange(end_time, duration) == end_time > duration

TrimOutOfRangeMessage(end_time, duration) ==
    <<"end time (", ToString(end_time), "s) exceeds video length (",
      ToString(duration), "s)">>

\* a success map reporting the end time as the duration
TrimSuccessEndAsDuration(out, duration, start_time, end_time) ==
    [success |-> TRUE, output_file |-> out, duration |-> end_time,
     start_time |-> start_time, end_time |-> end_time]

TrimSuccess(out, duration, start_time, end_time) ==
    [success |-> TRUE, output_file |-> out, duration |-> duration,
     start_time |-> start_time, end_time |-> end_time]

trim_video(video_path, start_time, end_time, output_path, fault) ==
    LET c   == [op |-> "trim_video", video_path |-> video_path,
                start_time |-> start_time, end_time |-> end_time,
                output_path |-> output_path]
        pre == TrimPreCheck(exists(fs, video_path), start_time, end_time)
        out == TrimOutputPath(video_path, output_path)
    IN
    IF pre # "OK"
    THEN Return(c, Failure(TrimPreMessage(pre, video_path), pre),
                <<>>, 0, <<>>, fs, <<>>, "none")
    ELSE IF ~VideoFileClipOpens(fs[video_path], handles, fault, 1)
    THEN Return(c, Caught("open", "TRIM_ERROR"),
                <<>>, 0, <<>>, fs, <<>>, "open")
    ELSE
    LET video == fs[video_path]
        trimmed_clip == subclipped(video, start_time, end_time)
        sc == <<<<start_time, end_time, video.duration>>>>
    IN
    IF TrimOutOfRange(end_time, video.duration)
    THEN Return(c, Failure(TrimOutOfRangeMessage(end_time, video.duration),
                           "TIME_OUT_OF_RANGE"),
                <<video_path>>, 1, <<>>, fs, <<>>, "none")
    ELSE IF fault = <<"transform", 0>>
    THEN Return(c, Caught("transform", "TRIM_ERROR"),
                <<video_path>>, 0, <<>>, fs, sc, "transform")
    ELSE IF fault = <<"write", 0>>
    THEN Return(c, Caught("write", "TRIM_ERROR"),
                <<video_path>>, 0, <<out>>, fs, sc, "write")
    ELSE Return(c, TrimSuccess(out, trimmed_clip.duration, start_time, end_time),
                <<video_path>>, 1, <<out>>, Put(fs, out, Encoded(trimmed_clip)),
                sc, "none")

TrimVideo ==
    /\ \E video_path \in TrimPaths, start_time \in Times, end_time \in Times,
          output_path \in OutputPaths, fault \in Faults :
           trim_video(video_path, start_time, end_time, output_path, fault)
    /\ UNCHANGED earlier

-----------------------------------------------------------------------------
(* extract_audio_segment *)

\* a negative start clamped to 0 instead of rejected
ExtractPreCheckClamped(fileExists, start_time, end_time) ==
    IF ~fileExists THEN "FILE_NOT_FOUND"
    ELSE IF end_time <= Max(start_time, 0) THEN "INVALID_TIME_RANGE"
    ELSE "OK"

\* a range check that lets end_time = start_time through
ExtractPreCheckStrict(fileExists, start_time, end_time) ==
    IF ~fileExists THEN "FILE_NOT_FOUND"
    ELSE IF start_time < 0 THEN "INVALID_START_TIME"
    ELSE IF end_time < start_time THEN "INVALID_TIME_RANGE"
    ELSE "OK"

ExtractPreCheck(fileExists, start_time, end_time) ==
    IF ~fileExists THEN "FILE_NOT_FOUND"
    ELSE IF start_time < 0 THEN "INVALID_START_TIME"
    ELSE IF end_time <= start_time THEN "INVALID_TIME_RANGE"
    ELSE "OK"

ExtractPreMessage(code, audio_path) ==
    IF code = "FILE_NOT_FOUND" THEN <<"audio file does not exist: ">> \o audio_path
    ELSE IF code = "INVALID_START_TIME" THEN <<"start time must not be negative">>
    ELSE <<"end time must be greater than start time">>

ExtractOutputPath(audio_path, output_path) ==
    IF output_path = None
    THEN splitext(basename(audio_path))[1] \o <<"_segment">>
         \o splitext(audio_path)[2]
    ELSE output_path

ExtractOutOfRange(end_time, duration) == end_time > duration

ExtractOutOfRangeMessage(end_time, duration) ==
    <<"end time (", ToString(end_time), "s) exceeds audio length (",
      ToString(duration), "s)">>

ExtractSuccess(out, duration, start_time, end_time) ==
    [success |-> TRUE, output_file |-> out, duration |-> duration,
     start_time |-> start_time, end_time |-> end_time]

extract_audio_segment(audio_path, start_time, end_time, output_path, fault) ==
    LET c   == [op |-> "extract_audio_segment", audio_path |-> audio_path,
                start_time |-> start_time, end_time |-> end_time,
                output_path |-> output_path]
        pre == ExtractPreCheck(exists(fs, audio_path), start_time, end_time)
        out == ExtractOutputPath(audio_path, output_path)
    IN
    IF pre # "OK"
    THEN Return(c, Failure(ExtractPreMessage(pre, audio_path), pre),
                <<>>, 0, <<>>, fs, <<>>, "none")
    ELSE IF ~AudioFileClipOpens(fs[audio_path], handles, fault, 1)
    THEN Return(c, Caught("open", "EXTRACT_ERROR"),
                <<>>, 0, <<>>, fs, <<>>, "open")
    ELSE
    LET audio == AudioOf(fs[audio_path])
        segment == subclipped(audio, start_time, end_time)
        sc == <<<<start_time, end_time, audio.duration>>>>
    IN
    IF ExtractOutOfRange(end_time, audio.duration)
    THEN Return(c, Failure(ExtractOutOfRangeMessage(end_time, audio.duration),
                           "TIME_OUT_OF_RANGE"),
                <<audio_path>>, 1, <<>>, fs, <<>>, "none")
    ELSE IF fault = <<"transform", 0>>
    THEN Return(c, Caught("transform", "EXTRACT_ERROR"),
                <<audio_path>>, 0, <<>>, fs, sc, "transform")
    ELSE IF fault = <<"write", 0>>
    THEN Return(c, Caught("write", "EXTRACT_ERROR"),
                <<audio_path>>, 0, <<out>>, fs, sc, "write")
    ELSE Return(c, ExtractSuccess(out, segment.duration, start_time, end_time),
                <<audio_path>>, 1, <<out>>, Put(fs, out, Encoded(segment)),
                sc, "none")

ExtractAudioSegment ==
    /\ \E audio_path \in ExtractPaths, start_time \in Times, end_time \in Times,
          output_path \in OutputPaths, fault \in Faults :
           extract_audio_segment(audio_path, start_time, end_time, output_path, fault)
    /\ UNCHANGED earlier

-----------------------------------------------------------------------------
(* resize_video *)

\* a parameter check that wants all three of width, height and scale
ResizePreCheckAll(fileExists, width, height, scale) ==
    IF ~fileExists THEN "FILE_NOT_FOUND"
    ELSE IF width = None \/ height = None \/ scale = None
         THEN "MISSING_SIZE_PARAMETER"
    ELSE "OK"

ResizePreCheck(fileExists, width, height, scale) ==
    IF ~fileExists THEN "FILE_NOT_FOUND"
    ELSE IF width = None /\ height = None /\ scale = None
         THEN "MISSING_SIZE_PARAMETER"
    ELSE "OK"

ResizePreMessage(code, video_path) ==
    IF code = "FILE_NOT_FOUND" THEN <<"video file does not exist: ">> \o video_path
    ELSE <<"at least one of width, height or scale must be given">>

ResizeOutputPath(video_path, output_path) ==
    IF output_path = None
    THEN splitext(basename(video_path))[1] \o <<"_resized", ".", "mp4">>
    ELSE output_path

\* a choice that looks at width and height before scale
ResizedClipScaleLast(video, width, height, scale, rounding) ==
    IF width # None /\ height # None
    THEN resized_new_size(video, width[1], height[1])
    ELSE IF width # None THEN resized_width(video, width[1], rounding)
    ELSE IF height # None THEN resized_height(video, height[1], rounding)
    ELSE resized_scale(video, scale, rounding)

\* the branch of the engine's resize the code takes
ResizedClip(video, width, height, scale, rounding) ==
    IF scale # None THEN resized_scale(video, scale, rounding)
    ELSE IF width # None /\ height # None
         THEN resized_new_size(video, width[1], height[1])
    ELSE IF width # None THEN resized_width(video, width[1], rounding)
    ELSE resized_height(video, height[1], rounding)

ResizeSuccess(out, video, resized_clip) ==
    [success |-> TRUE, output_file |-> out,
     original_size |-> [width |-> video.w, height |-> video.h],
     new_size |-> [width |-> resized_clip.w, height |-> resized_clip.h]]

resize_video(video_path, width, height, scale, output_path, fault, rounding) ==
    LET c   == [op |-> "resize_video", video_path |-> video_path,
                width |-> width, height |-> height, scale |-> scale,
                output_path |-> output_path]
        pre == ResizePreCheck(exists(fs, video_path), width, height, scale)
        out == ResizeOutputPath(video_path, output_path)
    IN
    IF pre # "OK"
    THEN Return(c, Failure(ResizePreMessage(pre, video_path), pre),
                <<>>, 0, <<>>, fs, <<>>, "none")
    ELSE IF ~VideoFileClipOpens(fs[video_path], handles, fault, 1)
    THEN Return(c, Caught("open", "RESIZE_ERROR"),
                <<>>, 0, <<>>, fs, <<>>, "open")
    ELSE
    LET video == fs[video_path]
        resized_clip == ResizedClip(video, width, height, scale, rounding)
    IN
    IF fault = <<"transform", 0>>
    THEN Return(c, Caught("transform", "RESIZE_ERROR"),
                <<video_path>>, 0, <<>>, fs, <<>>, "transform")
    ELSE IF fault = <<"write", 0>>
    THEN Return(c, Caught("write", "RESIZE_ERROR"),
                <<video_path>>, 0, <<out>>, fs, <<>>, "write")
    ELSE Return(c, ResizeSuccess(out, video, resized_clip),
                <<video_path>>, 1, <<out>>, Put(fs, out, Encoded(resized_clip)),
                <<>>, "none")

ResizeVideo ==
    /\ \E video_path \in ResizePaths, width \in Widths, height \in Heights,
          scale \in Scales, output_path \in OutputPaths, fault \in Faults,
          rounding \in Roundings :
           resize_video(video_path, width, height, scale, output_path, fault,
                        rounding)
    /\ UNCHANGED earlier

-----------------------------------------------------------------------------
(* video_to_audio *)

AudioPreCheck(fileExists) == IF ~fileExists THEN "FILE_NOT_FOUND" ELSE "OK"

AudioPreMessage(video_path) == <<"video file does not exist: ">> \o video_path

AudioOutputPath(video_path, output_path, audio_format) ==
    IF output_path = None
    THEN splitext(basename(video_path))[1] \o <<".", audio_format>>
    ELSE output_path

\* a check that never finds the audio track missing
NoAudioTrackIgnored(video) == FALSE

\* video.audio is None
NoAudioTrack(video) == ~video.audio

AudioSuccess(out, audio_format, duration) ==
    [success |-> TRUE, output_file |-> out, format |-> audio_format,
     duration |-> duration]

video_to_audio(video_path, output_path, audio_format, fault) ==
    LET c   == [op |-> "video_to_audio", video_path |-> video_path,
                output_path |-> output_path, audio_format |-> audio_format]
        pre == AudioPreCheck(exists(fs, video_path))
        out == AudioOutputPath(video_path, output_path, audio_format)
    IN
    IF pre # "OK"
    THEN Return(c, Failure(AudioPreMessage(video_path), pre),
                <<>>, 0, <<>>, fs, <<>>, "none")
    ELSE IF ~VideoFileClipOpens(fs[video_path], handles, fault, 1)
    THEN Return(c, Caught("open", "CONVERSION_ERROR"),
                <<>>, 0, <<>>, fs, <<>>, "open")
    ELSE
    LET video == fs[video_path] IN
    IF NoAudioTrack(video)
    THEN Return(c, Failure(<<"video file has no audio track">>, "NO_AUDIO_TRACK"),
                <<video_path>>, 1, <<>>, fs, <<>>, "none")
    ELSE IF fault = <<"write", 0>>
    THEN Return(c, Caught("write", "CONVERSION_ERROR"),
                <<video_path>>, 0, <<out>>, fs, <<>>, "write")
    ELSE Return(c, AudioSuccess(out, audio_format, video.duration),
                <<video_path>>, 1, <<out>>, Put(fs, out, Encoded(AudioOf(video))),
                <<>>, "none")

VideoToAudio ==
    /\ \E video_path \in InputPaths, output_path \in OutputPaths,
          audio_format \in AudioFormats, fault \in AudioFaults :
           video_to_audio(video_path, output_path, audio_format, fault)
    /\ UNCHANGED earlier

-----------------------------------------------------------------------------
(* concatenate_videos *)

\* a count check that accepts a single path
InsufficientVideosOffByOne(video_paths) ==
    video_paths = None \/ Len(video_paths) < 1

\* not video_paths or len(video_paths) < 2
InsufficientVideos(video_paths) == video_paths = None \/ Len(video_paths) < 2

\* a loop that keeps the last missing path instead of returning at the first
RECURSIVE LastMissing(_, _, _)
LastMissing(fsys, video_paths, i) ==
    IF i > Len(video_paths) THEN 0
    ELSE LET later == LastMissing(fsys, video_paths, i + 1)
         IN IF later # 0 THEN later
            ELSE IF ~exists(fsys, video_paths[i]) THEN i
            ELSE 0

\* the loop over video_paths: index of the first path that does not exist,
\* 0 when all exist
RECURSIVE FirstMissing(_, _, _)
FirstMissing(fsys, video_paths, i) ==
    IF i > Len(video_paths) THEN 0
    ELSE IF ~exists(fsys, video_paths[i]) THEN i
    ELSE FirstMissing(fsys, video_paths, i + 1)

ConcatOutputPath(output_path) ==
    IF output_path = None THEN <<"concatenated_output", ".", "mp4">>
    ELSE output_path

\* the list comprehension opening the clips in order: index of the first
\* clip whose open raises, 0 when all open
RECURSIVE FirstFailingOpen(_, _, _, _, _)
FirstFailingOpen(fsys, h, video_paths, fault, k) ==
    IF k > Len(video_paths) THEN 0
    ELSE IF ~VideoFileClipOpens(fsys[video_paths[k]], h + k - 1, fault, k) THEN k
    ELSE FirstFailingOpen(fsys, h, video_paths, fault, k + 1)

\* a success map that counts the different files instead of the clips
ConcatSuccessDistinct(out, total_duration, video_paths) ==
    [success |-> TRUE, output_file |-> out, total_duration |-> total_duration,
     video_count |-> Cardinality({video_paths[k] : k \in 1..Len(video_paths)})]

ConcatSuccess(out, total_duration, video_paths) ==
    [success |-> TRUE, output_file |-> out, total_duration |-> total_duration,
     video_count |-> Len(video_paths)]

concatenate_videos(video_paths, output_path, transition, fault) ==
    LET c   == [op |-> "concatenate_videos", video_paths |-> video_paths,
                output_path |-> output_path, transition |-> transition]
        out == ConcatOutputPath(output_path)
    IN
    IF InsufficientVideos(video_paths)
    THEN Return(c, Failure(<<"at least two video files are needed">>,
                           "INSUFFICIENT_VIDEOS"),
                <<>>, 0, <<>>, fs, <<>>, "none")
    ELSE
    LET missing == FirstMissing(fs, video_paths, 1) IN
    IF missing # 0
    THEN Return(c, Failure(<<"video file does not exist: ">> \o video_paths[missing],
                           "FILE_NOT_FOUND"),
                <<>>, 0, <<>>, fs, <<>>, "none")
    ELSE
    LET failing == FirstFailingOpen(fs, handles, video_paths, fault, 1) IN
    IF failing # 0
    THEN Return(c, Caught("open", "CONCATENATION_ERROR"),
                SubSeq(video_paths, 1, failing - 1), 0, <<>>, fs, <<>>, "open")
    ELSE
    LET clips == [k \in 1..Len(video_paths) |-> fs[video_paths[k]]]
        final_clip == concatenate_videoclips(clips)
    IN
    IF fault = <<"transform", 0>>
    THEN Return(c, Caught("transform", "CONCATENATION_ERROR"),
                video_paths, 0, <<>>, fs, <<>>, "transform")
    ELSE IF fault = <<"write", 0>>
    THEN Return(c, Caught("write", "CONCATENATION_ERROR"),
                video_paths, 0, <<out>>, fs, <<>>, "write")
    ELSE Return(c, ConcatSuccess(out, final_clip.duration, video_paths),
                video_paths, Len(clips), <<out>>,
                Put(fs, out, Encoded(final_clip)), <<>>, "none")

ConcatenateVideos ==
    /\ \E video_paths \in PathLists, output_path \in OutputPaths,
          transition \in Transitions, fault \in ConcatFaults :
           concatenate_videos(video_paths, output_path, transition, fault)
    /\ UNCHANGED earlier

-----------------------------------------------------------------------------
(* get_video_info *)

InfoPreCheck(fileExists) == IF ~fileExists THEN "FILE_NOT_FOUND" ELSE "OK"

InfoPreMessage(video_path) == <<"video file does not exist: ">> \o video_path

MiB == 1024 * 1024

\* the size in MiB with the digits after the second decimal cut off
file_size_mb_truncated(file_size) ==
    (file_size \div MiB) * 100 + ((file_size % MiB) * 100) \div MiB

\* round(file_size / (1024 * 1024), 2), in hundredths of a MiB; the product
\* is split so that it stays within 32 bits
file_size_mb(file_size) ==
    (file_size \div MiB) * 100 + RoundDiv((file_size % MiB) * 100, MiB)

\* an info that is taken from the previous call's result when that call
\* was a successful get_video_info, whatever file it was about
VideoInfoCached(video, file_size) ==
    IF call.op = "get_video_info" /\ result.success THEN result.info
    ELSE [duration |-> video.duration, fps |-> video.fps,
          size |-> <<video.w, video.h>>, width |-> video.w, height |-> video.h,
          has_audio |-> video.audio, file_size_bytes |-> file_size,
          file_size_mb |-> file_size_mb(file_size)]

VideoInfo(video, file_size) ==
    [duration |-> video.duration, fps |-> video.fps,
     size |-> <<video.w, video.h>>, width |-> video.w, height |-> video.h,
     has_audio |-> video.audio, file_size_bytes |-> file_size,
     file_size_mb |-> file_size_mb(file_size)]

InfoSuccess(info) == [success |-> TRUE, info |-> info]

get_video_info(video_path, fault) ==
    LET c   == [op |-> "get_video_info", video_path |-> video_path]
        pre == InfoPreCheck(exists(fs, video_path))
    IN
    IF pre # "OK"
    THEN Return(c, Failure(InfoPreMessage(video_path), pre),
                <<>>, 0, <<>>, fs, <<>>, "none")
    ELSE IF ~VideoFileClipOpens(fs[video_path], handles, fault, 1)
    THEN Return(c, Caught("open", "INFO_ERROR"),
                <<>>, 0, <<>>, fs, <<>>, "open")
    ELSE IF fault = <<"stat", 0>>
    THEN Return(c, Caught("stat", "INFO_ERROR"),
                <<video_path>>, 0, <<>>, fs, <<>>, "stat")
    ELSE Return(c, InfoSuccess(VideoInfo(fs[video_path], fs[video_path].bytes)),
                <<video_path>>, 1, <<>>, fs, <<>>, "none")

GetVideoInfo ==
    /\ \E video_path \in InputPaths, fault \in InfoFaults :
           get_video_info(video_path, fault)
    /\ UNCHANGED earlier

-----------------------------------------------------------------------------
Init ==
    /\ fs = (Video :> VideoMedia) @@ (Clip :> ClipMedia) @@ (Song :> SongMedia)
    /\ found = fs
    /\ handles = 0
    /\ call = [op |-> "none"]
    /\ result = [success |-> TRUE]
    /\ opened = <<>>
    /\ closed = 0
    /\ written = <<>>
    /\ subclips = <<>>
    /\ raised = "none"
    /\ earlier = [p \in InputPaths |-> None]

\* __all__: the operations the package offers, one action of Next each
Operations == {"video_to_audio", "concatenate_videos", "trim_video",
               "resize_video", "extract_audio_segment", "get_video_info"}

Next ==
    \/ VideoToAudio
    \/ ConcatenateVideos
    \/ TrimVideo
    \/ ExtractAudioSegment
    \/ ResizeVideo
    \/ GetVideoInfo

Spec == Init /\ [][Next]_vars

-----------------------------------------------------------------------------
(* get_video_info called again and again on the same files, with trims,    *)
(* resizes and audio extractions reading those files in between.  This     *)
(* specification keeps the history variable earlier, so that two calls on  *)
(* the same path can be compared in one state.                             *)

\* the files the repeated calls are about: a video, a file that
\* video_to_audio overwrites when the output path is omitted, a missing one
InfoPaths == {Video, Song, Nonexistent}

\* the engine raises nothing or fails the write
BetweenFaults == {NoFault, <<"write", 0>>}

\* the file at path as a call finds it, None when there is none
FileAt(fsys, path) == IF exists(fsys, path) THEN <<fsys[path]>> ELSE None

\* the history after one more call: the last call, when it was a
\* get_video_info, becomes the earlier call on its path
Remembered ==
    IF call.op = "get_video_info"
    THEN [earlier EXCEPT ![call.video_path] =
              <<[file |-> FileAt(found, call.video_path),
                 result |-> result, raised |-> raised]>>]
    ELSE earlier

InfoAgain ==
    /\ \E video_path \in InfoPaths, fault \in InfoFaults :
           get_video_info(video_path, fault)
    /\ earlier' = Remembered

TrimBetween ==
    /\ \E video_path \in InfoPaths, end_time \in 1..MaxTime,
          fault \in BetweenFaults :
           trim_video(video_path, 0, end_time, None, fault)
    /\ earlier' = Remembered

ResizeBetween ==
    /\ \E video_path \in InfoPaths, fault \in BetweenFaults :
           resize_video(video_path, None, None, <<1, 2>>, None, fault, "floor")
    /\ earlier' = Remembered

AudioBetween ==
    /\ \E video_path \in InfoPaths, audio_format \in AudioFormats,
          fault \in BetweenFaults :
           video_to_audio(video_path, None, audio_format, fault)
    /\ earlier' = Remembered

InfoNext ==
    \/ InfoAgain
    \/ TrimBetween
    \/ ResizeBetween
    \/ AudioBetween

InfoSpec == Init /\ [][InfoNext]_vars

-----------------------------------------------------------------------------
(* Vocabulary of the properties *)

SingleOps == {"video_to_audio", "trim_video", "resize_video",
              "extract_audio_segment", "get_video_info"}
RangeOps  == {"trim_video", "extract_audio_segment"}

\* the input path of a call of a single-input operation
InputOf(c) == IF c.op = "extract_audio_segment" THEN c.audio_path
              ELSE c.video_path

\* the error code of a result map, "" for a success
CodeOf(r) == IF r.success THEN "" ELSE r.error_code

ErrorCodes == {"FILE_NOT_FOUND", "INSUFFICIENT_VIDEOS", "INVALID_START_TIME",
               "INVALID_TIME_RANGE", "TIME_OUT_OF_RANGE", "MISSING_SIZE_PARAMETER",
               "NO_AUDIO_TRACK", "CONVERSION_ERROR", "CONCATENATION_ERROR",
               "TRIM_ERROR", "RESIZE_ERROR", "EXTRACT_ERROR", "INFO_ERROR"}

\* a message: a non-empty sequence of strings
IsMessage(m) == /\ DOMAIN m = 1..Len(m)
                /\ Len(m) > 0
                /\ \A i \in 1..Len(m) : m[i] \in STRING

-----------------------------------------------------------------------------
(* Properties *)

\* C1: on every exit path of every operation, every media handle the call
\* opened has been closed when the call returns, so that no handle is open
\* after any sequence of calls.
C1_AllHandlesClosed ==
    call.op # "none" => (closed = Len(opened) /\ handles = 0)

\* C2: every call returns a well-formed result map, also when the engine or
\* the filesystem raised: a boolean success, and on failure a message error
\* and a string error_code.
C2_WellFormedResult ==
    call.op # "none" =>
        /\ "success" \in DOMAIN result
        /\ result.success \in BOOLEAN
        /\ raised # "none" => ~result.success
        /\ ~result.success =>
              /\ {"error", "error_code"} \subseteq DOMAIN result
              /\ IsMessage(result.error)
              /\ result.error_code \in ErrorCodes

C2_Witness ==
    /\ call.op = "get_video_info"
    /\ raised = "stat"
    /\ result.success = FALSE
    /\ result.error_code = "INFO_ERROR"

\* C3: a call of a single-input operation whose input path does not exist
\* returns success=false with FILE_NOT_FOUND whatever the other parameters
\* are: the existence check comes before every parameter check.
C3_MissingInputFirst ==
    (call.op \in SingleOps /\ ~exists(found, InputOf(call)))
    => (result.success = FALSE /\ result.error_code = "FILE_NOT_FOUND")

C3_Witness ==
    /\ call.op = "trim_video"
    /\ ~exists(found, call.video_path)
    /\ call.start_time < 0
    /\ call.end_time <= call.start_time
    /\ CodeOf(result) = "FILE_NOT_FOUND"

\* C4: concatenate_videos with fewer than 2 paths (none, an empty list, one
\* path, existing or not) returns success=false with INSUFFICIENT_VIDEOS and
\* opens no media.
C4_InsufficientVideos ==
    (call.op = "concatenate_videos" /\ Len(call.video_paths) < 2)
    => /\ CodeOf(result) = "INSUFFICIENT_VIDEOS"
       /\ opened = <<>>
       /\ written = <<>>

C4_Witness ==
    /\ call.op = "concatenate_videos"
    /\ call.video_paths = <<Video>>
    /\ CodeOf(result) = "INSUFFICIENT_VIDEOS"

\* index of the first path of the list that is not in the filesystem
FirstMissingIndex(fsys, paths) ==
    CHOOSE i \in 1..Len(paths) :
        /\ ~exists(fsys, paths[i])
        /\ \A j \in 1..(i - 1) : exists(fsys, paths[j])

\* C5: concatenate_videos with 2 or more paths, at least one of them missing,
\* returns FILE_NOT_FOUND with a message naming the first missing path in
\* list order; no clip is opened and nothing is written.
C5_FirstMissingPath ==
    (/\ call.op = "concatenate_videos"
     /\ Len(call.video_paths) >= 2
     /\ \E i \in 1..Len(call.video_paths) : ~exists(found, call.video_paths[i]))
    => /\ result =
            Failure(<<"video file does not exist: ">>
                    \o call.video_paths[FirstMissingIndex(found, call.video_paths)],
                    "FILE_NOT_FOUND")
       /\ opened = <<>>
       /\ written = <<>>
       /\ fs = found

C5_Witness ==
    /\ call.op = "concatenate_videos"
    /\ call.video_paths = <<Clip, Gone, Nonexistent>>
    /\ CodeOf(result) = "FILE_NOT_FOUND"
    /\ result.error = <<"video file does not exist: ">> \o Gone

\* C6: trim_video and extract_audio_segment on an existing input with
\* start_time < 0 return INVALID_START_TIME for every end_time; the start is
\* not clamped to 0 and the media is not opened.
C6_NegativeStartRejected ==
    (/\ call.op \in RangeOps
     /\ exists(found, InputOf(call))
     /\ call.start_time < 0)
    => /\ result.success = FALSE
       /\ result.error_code = "INVALID_START_TIME"
       /\ opened = <<>>
       /\ subclips = <<>>

C6_Witness ==
    /\ call.op = "extract_audio_segment"
    /\ exists(found, call.audio_path)
    /\ call.start_time < 0
    /\ call.end_time > 0
    /\ CodeOf(result) = "INVALID_START_TIME"

\* C7 as stated: trim_video and extract_audio_segment on an existing input
\* with start_time >= end_time always fail with INVALID_TIME_RANGE.
C7_Original ==
    (/\ call.op \in RangeOps
     /\ exists(found, InputOf(call))
     /\ call.start_time >= call.end_time)
    => CodeOf(result) = "INVALID_TIME_RANGE"

\* C7 amended: on an existing input with start_time >= 0 and
\* start_time >= end_time, trim_video and extract_audio_segment fail with
\* INVALID_TIME_RANGE without opening the media; with a negative start_time
\* the code is INVALID_START_TIME whatever the end_time.
C7_InvalidTimeRange ==
    (/\ call.op \in RangeOps
     /\ exists(found, InputOf(call))
     /\ call.start_time >= call.end_time)
    => /\ CodeOf(result) = IF call.start_time >= 0 THEN "INVALID_TIME_RANGE"
                           ELSE "INVALID_START_TIME"
       /\ opened = <<>>

C7_Witness ==
    /\ call.op = "extract_audio_segment"
    /\ exists(found, call.audio_path)
    /\ call.start_time >= 0
    /\ call.start_time = call.end_time
    /\ CodeOf(result) = "INVALID_TIME_RANGE"

C9_TrimmedDuration ==
    (/\ call.op \in RangeOps
     /\ exists(found, InputOf(call))
     /\ 0 <= call.start_time
     /\ call.start_time < call.end_time
     /\ call.end_time <= found[InputOf(call)].duration
     /\ raised = "none")
    => /\ result.success = TRUE
       /\ result.duration = call.end_time - call.start_time
       /\ result.start_time = call.start_time
       /\ result.end_time = call.end_time

C9_Witness ==
    /\ call.op = "trim_video"
    /\ call.video_path = Video
    /\ call.start_time = 1
    /\ call.end_time = 2
    /\ result.success
    /\ result.duration = 1

\* C10: resize_video on an existing input fails with MISSING_SIZE_PARAMETER
\* exactly when width, height and scale are all omitted; with any one or
\* several of them given it never fails with that code.
C10_MissingSizeParameter ==
    (call.op = "resize_video" /\ exists(found, call.video_path))
    => ((call.width = None /\ call.height = None /\ call.scale = None)
        <=> CodeOf(result) = "MISSING_SIZE_PARAMETER")

C10_Witness ==
    /\ call.op = "resize_video"
    /\ exists(found, call.video_path)
    /\ call.width # None
    /\ call.height = None
    /\ call.scale # None
    /\ result.success

\* the size the geometry rule of C11 gives, every quotient taken by q
TargetSize(video, width, height, scale, q(_, _)) ==
    IF scale # None
    THEN [width |-> q(video.w * scale[1], scale[2]),
          height |-> q(video.h * scale[1], scale[2])]
    ELSE IF width # None /\ height # None
         THEN [width |-> width[1], height |-> height[1]]
    ELSE IF width # None
         THEN [width |-> width[1], height |-> q(video.h * width[1], video.w)]
    ELSE [width |-> q(video.w * height[1], video.h), height |-> height[1]]

FloorDiv(n, d) == n \div d

\* C11 as stated: a successful resize_video reports original_size equal to
\* the source dimensions and new_size equal to the target chosen by the
\* precedence scale, then width and height together, then width, then
\* height, every derived dimension being round() of the exact value.
C11_Original ==
    (call.op = "resize_video" /\ result.success)
    => LET video == found[call.video_path] IN
       /\ result.original_size = [width |-> video.w, height |-> video.h]
       /\ result.new_size =
            TargetSize(video, call.width, call.height, call.scale, RoundDiv)

\* C11 amended: same precedence and same verbatim dimensions; a derived
\* dimension is the exact value made an integer by the engine, either cut
\* off or rounded to nearest, so it is within one pixel of the exact value
\* and equals it when the exact value is an integer.
C11_ResizeGeometry ==
    (call.op = "resize_video" /\ result.success)
    => LET video == found[call.video_path]
           lo == TargetSize(video, call.width, call.height, call.scale, FloorDiv)
           hi == TargetSize(video, call.width, call.height, call.scale, RoundDiv)
       IN
       /\ result.original_size = [width |-> video.w, height |-> video.h]
       /\ result.new_size \in {lo, hi}

C11_Witness ==
    /\ call.op = "resize_video"
    /\ call.video_path = Video
    /\ call.scale = <<1, 2>>
    /\ call.width = <<3>>
    /\ result.success
    /\ result.new_size = [width |-> 2, height |-> 1]

\* C12: video_to_audio on an existing video that opens: without an audio
\* track it fails with NO_AUDIO_TRACK, has closed the handle it opened and has
\* written nothing; with an audio track it writes exactly once and succeeds
\* with the requested format and the duration of the source.
C12_AudioTrack ==
    (/\ call.op = "video_to_audio"
     /\ exists(found, call.video_path)
     /\ raised = "none")
    => LET video == found[call.video_path] IN
       IF ~video.audio
       THEN /\ ~result.success
            /\ result.error_code = "NO_AUDIO_TRACK"
            /\ opened = <<call.video_path>>
            /\ closed = 1
            /\ written = <<>>
            /\ fs = found
       ELSE /\ result.success
            /\ Len(written) = 1
            /\ result.format = call.audio_format
            /\ result.duration = video.duration

\* a video without audio track was refused after being opened
C12_Witness ==
    /\ call.op = "video_to_audio"
    /\ call.video_path = Clip
    /\ result.success = FALSE
    /\ result.error_code = "NO_AUDIO_TRACK"
    /\ opened = <<Clip>>
    /\ closed = 1

\* h hundredths of a MiB is file_size / 1048576 rounded to 2 decimals
IsRoundedMiB(h, file_size) ==
    LET diff == 100 * file_size - h * MiB
    IN  2 * diff <= MiB /\ 2 * (0 - diff) <= MiB

\* what get_video_info has to report for the file it found, C13's list
InfoMatches(info, video) ==
    /\ info.duration = video.duration
    /\ info.fps = video.fps
    /\ info.width = video.w
    /\ info.height = video.h
    /\ info.size = <<video.w, video.h>>
    /\ info.has_audio = video.audio
    /\ info.file_size_bytes = video.bytes
    /\ IsRoundedMiB(info.file_size_mb, video.bytes)

\* the cases of C13: get_video_info on an existing video that opens
InfoCase ==
    /\ call.op = "get_video_info"
    /\ exists(found, call.video_path)
    /\ raised = "none"

\* C13 as stated: get_video_info on an existing, openable video succeeds
\* with the video's duration, fps, width, height, size, has_audio, size in
\* bytes and size in MiB rounded to 2 decimals, and the size is positive in
\* bytes and in MiB for every non-empty file.
C13_Original ==
    InfoCase
    => LET video == found[call.video_path] IN
       /\ result.success
       /\ InfoMatches(result.info, video)
       /\ video.bytes > 0
          => (result.info.file_size_bytes > 0 /\ result.info.file_size_mb > 0)

\* C13 amended: the same, except that the size in MiB is positive only for
\* files of at least 5243 bytes (0.005 MiB); smaller non-empty files report
\* 0.0 MiB and a positive size in bytes.
C13_VideoInfo ==
    InfoCase
    => LET video == found[call.video_path] IN
       /\ result.success
       /\ InfoMatches(result.info, video)
       /\ video.bytes > 0 => result.info.file_size_bytes > 0
       /\ result.info.file_size_mb > 0 <=> video.bytes >= 5243

\* the smallest file with a positive size in MiB was reported
C13_Witness ==
    /\ InfoCase
    /\ call.video_path = Song
    /\ result.success
    /\ result.info.file_size_bytes = 5243
    /\ result.info.file_size_mb = 1
    /\ result.info.size = <<1, 1>>

GenericCode(op) ==
    CASE op = "video_to_audio"        -> "CONVERSION_ERROR"
      [] op = "concatenate_videos"    -> "CONCATENATION_ERROR"
      [] op = "trim_video"            -> "TRIM_ERROR"
      [] op = "resize_video"          -> "RESIZE_ERROR"
      [] op = "extract_audio_segment" -> "EXTRACT_ERROR"
      [] op = "get_video_info"        -> "INFO_ERROR"

\* the input paths of a call, in the order the call names them
InputsOf(c) == IF c.op = "concatenate_videos" THEN c.video_paths
               ELSE <<InputOf(c)>>

\* C15: when an engine or filesystem step raises after the pre-checks, the
\* call returns success = false with the generic code of its operation and
\* the exception's message as error; no step is tried again: the handles a
\* call opens are on its inputs, in order and one per input, and it invokes
\* the write step at most once.
C15_CaughtOnce ==
    call.op # "none"
    => /\ raised # "none"
          => /\ ~result.success
             /\ result.error_code = GenericCode(call.op)
             /\ result.error = <<"engine failure: ", raised>>
       /\ Len(opened) <= Len(InputsOf(call))
       /\ opened = SubSeq(InputsOf(call), 1, Len(opened))
       /\ Len(written) <= 1

\* a write that raised in concatenate_videos after both inputs were opened
C15_Witness ==
    /\ call.op = "concatenate_videos"
    /\ raised = "write"
    /\ result.success = FALSE
    /\ result.error_code = "CONCATENATION_ERROR"
    /\ opened = <<Video, Clip>>
    /\ Len(written) = 1

\* the error codes an operation can return
CodesOf(op) ==
    {"FILE_NOT_FOUND", GenericCode(op)} \cup
    CASE op = "video_to_audio"     -> {"NO_AUDIO_TRACK"}
      [] op = "concatenate_videos" -> {"INSUFFICIENT_VIDEOS"}
      [] op \in RangeOps           -> {"INVALID_START_TIME", "INVALID_TIME_RANGE",
                                       "TIME_OUT_OF_RANGE"}
      [] op = "resize_video"       -> {"MISSING_SIZE_PARAMETER"}
      [] op = "get_video_info"     -> {}

\* the fields of a success result, besides success
SuccessFields(op) ==
    CASE op = "video_to_audio"     -> {"output_file", "format", "duration"}
      [] op = "concatenate_videos" -> {"output_file", "total_duration",
                                       "video_count"}
      [] op \in RangeOps           -> {"output_file", "duration", "start_time",
                                       "end_time"}
      [] op = "resize_video"       -> {"output_file", "original_size", "new_size"}
      [] op = "get_video_info"     -> {"info"}

FilePathFields == {"output_file", "output_files", "input_file", "input_files"}

WritingOps == {"video_to_audio", "concatenate_videos", "trim_video",
               "resize_video", "extract_audio_segment"}

\* the outputs root the path conventions name
OutputsRoot == <<"data", "/", "outputs">>

\* path lies in the directory dir or below it
Under(path, dir) ==
    /\ Len(path) > Len(dir) + 1
    /\ SubSeq(path, 1, Len(dir)) = dir
    /\ path[Len(dir) + 1] = "/"

\* C17: a call that reaches its write step writes to the caller's output_path
\* and reports it when one is given; when none is given it writes to, and
\* reports, a path synthesized under the outputs root.
C17_OutputResolution ==
    (call.op \in WritingOps /\ written # <<>>)
    => /\ result.success => result.output_file = written[1]
       /\ IF call.output_path # None
          THEN written = <<call.output_path>>
          ELSE Under(written[1], OutputsRoot)

\* C18: the operations offered include extract_frames, and a call of it
\* with times None or empty fails with INVALID_TIMES, and otherwise reports
\* requested_count = the number of timestamps given and an extracted_count
\* that does not exceed it.
C18_ExtractFrames ==
    /\ "extract_frames" \in Operations
    /\ call.op = "extract_frames"
       => IF call.times = None
          THEN ~result.success /\ result.error_code = "INVALID_TIMES"
          ELSE result.success
               => /\ result.requested_count = Len(call.times)
                  /\ result.extracted_count <= result.requested_count

\* the durations of the files at paths, added up in list order
RECURSIVE TotalDuration(_, _)
TotalDuration(fsys, paths) ==
    IF paths = <<>> THEN 0
    ELSE fsys[Head(paths)].duration + TotalDuration(fsys, Tail(paths))

\* C19: concatenate_videos on n >= 2 existing inputs, all of which open, with
\* no engine step raising: it opens the inputs in list order, invokes one
\* write, and succeeds with video_count = n and total_duration = the duration
\* of the inputs joined one after the other; result and write are fixed by
\* the paths and output_path alone, so transition has no effect.
C19_Concatenation ==
    (/\ call.op = "concatenate_videos"
     /\ Len(call.video_paths) >= 2
     /\ \A k \in 1..Len(call.video_paths) : exists(found, call.video_paths[k])
     /\ raised = "none")
    => LET out == IF call.output_path = None
                  THEN <<"concatenated_output", ".", "mp4">>
                  ELSE call.output_path
       IN /\ opened = call.video_paths
          /\ written = <<out>>
          /\ result = [success |-> TRUE, output_file |-> out,
                       total_duration |-> TotalDuration(found, call.video_paths),
                       video_count |-> Len(call.video_paths)]

\* the same video joined to itself, with a transition asked for
C19_Witness ==
    /\ call.op = "concatenate_videos"
    /\ call.video_paths = <<Video, Video>>
    /\ call.transition = <<"fade">>
    /\ result.success
    /\ result.video_count = 2
    /\ result.total_duration = 4
    /\ closed = 2

PreOpenCodes == {"FILE_NOT_FOUND", "INSUFFICIENT_VIDEOS", "INVALID_START_TIME",
                 "INVALID_TIME_RANGE", "MISSING_SIZE_PARAMETER"}

\* C21: a call that returns a failure with one of the pre-open validation
\* codes has opened no handle (and so closed none: the open handles are
\* those of before), has invoked no engine step, neither a sub-range nor a
\* write nor one that raised, and leaves the files as it found them.
C21_PreOpenFailureFrame ==
    (call.op # "none" /\ ~result.success /\ result.error_code \in PreOpenCodes)
    => /\ opened = <<>>
       /\ closed = 0
       /\ subclips = <<>>
       /\ written = <<>>
       /\ raised = "none"
       /\ fs = found

\* a resize refused for its missing size parameters while a handle left
\* open by an earlier call stays open
C21_Witness ==
    /\ call.op = "resize_video"
    /\ result.success = FALSE
    /\ result.error_code = "MISSING_SIZE_PARAMETER"
    /\ opened = <<>>
    /\ handles = 1

\* C22: a call without output_path that reaches its write step writes to a
\* synthesized path that is the path of none of its inputs.
C22_OutputNotInput ==
    (call.op \in WritingOps /\ call.output_path = None /\ written # <<>>)
    => \A k \in 1..Len(InputsOf(call)) : written[1] # InputsOf(call)[k]

=============================================================================
